---- MODULE Spec2Model ----
(***************************************************************************)
(* A model of rcf, the append-only columnar file of reusee/rcf: the frame  *)
(* layout on disk, File.validate, File.Append, and the three iteration     *)
(* functions IterMetas, Iter and IterAll with their framer goroutine,      *)
(* decoder goroutines (p1.ParallelProcess) and callback stage              *)
(* (p2.Process).                                                           *)
(***************************************************************************)
EXTENDS Integers, Sequences, FiniteSets, TLC

(***************************************************************************)
(* Bounds of the model.                                                    *)
(***************************************************************************)
\* Append calls made in one behaviour, over all writer threads.
MaxAppends == 2
\* runtime.NumCPU(): the number of decoder goroutines of ParallelProcess.
NumCPU == 2
\* The largest number of column sets K of the headers whose lengths are
\* drawn from the whole range of a uint32.
MaxSets == 2

(***************************************************************************)
(* The schema of the tests: colSetsFn(0) = {Foo}, colSetsFn(1) = {Bar,Baz}.*)
(***************************************************************************)
colSets == << <<"Foo">>, <<"Bar", "Baz">> >>

ColNames == {"Foo", "Bar", "Baz"}

\* The attribute number of a column, used to build distinct row values.
ColNo(c) == CASE c = "Foo" -> 0 [] c = "Bar" -> 1 [] c = "Baz" -> 2 [] OTHER -> 3

\* Row j of the batch a caller appends with meta m: the value of column c.
RowValue(m, j, c) == 16 * m + 4 * j + ColNo(c)

\* The callers append numbered batches, as TestIterAll does: the batch with
\* meta m has NumRows(m) rows (2, 0, 1, 2, ...), each with every column.
NumRows(m) == (m + 4) % 3

RowsOf(m) == [j \in 1..NumRows(m) |-> [c \in ColNames |-> RowValue(m, j, c)]]

(***************************************************************************)
(* Bytes, encoding/binary little-endian, and the codec.                    *)
(***************************************************************************)
Max(a, b) == IF a > b THEN a ELSE b

Min(a, b) == IF a < b THEN a ELSE b

RECURSIVE Flatten(_)
Flatten(ss) == IF ss = <<>> THEN <<>> ELSE Head(ss) \o Flatten(Tail(ss))

\* binary.Write(f.file, binary.LittleEndian, uint8(n))
PutU8(n) == << n % 256 >>

\* binary.Write(f.file, binary.LittleEndian, uint32(n))
PutU32(n) ==
    << n % 256, (n \div 256) % 256, (n \div 65536) % 256, (n \div 16777216) % 256 >>

\* binary.Read of a uint32 from four bytes.
GetU32(bs) == bs[1] + 256 * bs[2] + 65536 * bs[3] + 16777216 * bs[4]

\* A uint32 as two 16-bit limbs <<hi, lo>>, and back (for values below 2^31).
Split(n) == << n \div 65536, n % 65536 >>

Join(p) == p[1] * 65536 + p[2]

\* sum += l on uint32 operands held as limbs: the carry out of the high limb
\* is dropped.
AddLimbs(a, b) ==
    LET lo == a[2] + b[2]
        hi == a[1] + b[1] + (lo \div 65536)
    IN  << hi % 65536, lo % 65536 >>

\* sum += l on uint32 operands.
AddU32(a, b) == Join(AddLimbs(Split(a), Split(b)))

\* f.encode(meta): the type descriptor, then the value.
EncodeMeta(m) == << 77, m >>

\* f.encode(&v) of column set n whose fields hold the arrays cols (one per
\* column of the set, in declaration order): descriptor, row count, arrays.
EncodeSet(n, cols) ==
    << 83 + n, IF cols = <<>> THEN 0 ELSE Len(cols[1]) >> \o Flatten(cols)

\* f.decode(bs, meta): fails unless bs is an encoded meta.
DecodeMeta(bs) ==
    IF Len(bs) = 2 /\ bs[1] = 77
    THEN [err |-> "nil", val |-> bs[2]]
    ELSE [err |-> "decode", val |-> 0]

\* f.decode(bs, &s) with s := f.colSetsFn(n): fails unless bs is an encoded
\* value of column set n; val holds one array per column of the set.
DecodeSet(n, bs) ==
    LET k == Len(colSets[n + 1])
    IN  IF Len(bs) >= 2 /\ bs[1] = 83 + n /\ Len(bs) = 2 + k * bs[2]
        THEN [err |-> "nil",
              val |-> [i \in 1..k |->
                         SubSeq(bs, 3 + (i - 1) * bs[2], 2 + i * bs[2])]]
        ELSE [err |-> "decode", val |-> <<>>]

(***************************************************************************)
(* os.File: contents as bytes, reads, seeks and writes at an offset.       *)
(***************************************************************************)
\* io.ReadFull(file, make([]byte, n)) at offset off of contents d (binary.Read
\* is an io.ReadFull of the fixed size): the bytes, the error and the offset
\* the handle is left at.
ReadFull(d, off, n) ==
    LET avail == Max(0, Len(d) - off)
    IN  IF n = 0 THEN [err |-> "nil", bs |-> <<>>, off |-> off]
        ELSE IF avail >= n
             THEN [err |-> "nil", bs |-> SubSeq(d, off + 1, off + n), off |-> off + n]
        ELSE IF avail = 0 THEN [err |-> "EOF", bs |-> <<>>, off |-> off]
        ELSE [err |-> "ErrUnexpectedEOF",
              bs |-> SubSeq(d, off + 1, Len(d)), off |-> Len(d)]

\* file.Seek(int64(n), os.SEEK_CUR): never fails, also past end of file.
SeekCur(off, n) == off + n

\* f.file.Write(bs) at offset off: overwrites, extends, and fills the gap
\* with zeros when off is past the end of the file.
WriteAt(d, off, bs) ==
    LET end == off + Len(bs)
        n   == Max(Len(d), end)
    IN  [i \in 1..n |->
            IF i > off /\ i <= end THEN bs[i - off]
            ELSE IF i <= Len(d) THEN d[i] ELSE 0]

(***************************************************************************)
(* File.Append: the row-to-column pivot and the frame it writes.           *)
(***************************************************************************)
\* A pivot that fills the column arrays from the last row to the first.
PivotReversed(rows) ==
    [c \in ColNames |-> [j \in 1..Len(rows) |-> rows[Len(rows) + 1 - j][c]]]

\* columns[col]: attribute col of every row, in row order.
Pivot(rows) == [c \in ColNames |-> [j \in 1..Len(rows) |-> rows[j][c]]]

\* The column-set value of set n (0-based): its fields set from the pivot.
SetFields(n, columns) ==
    [i \in 1..Len(colSets[n + 1]) |-> columns[colSets[n + 1][i]]]

\* bins: one encoded blob per column set, in factory index order.
EncodeBins(rows) ==
    [n \in 1..Len(colSets) |-> EncodeSet(n - 1, SetFields(n - 1, Pivot(rows)))]

\* An Append that writes the set blobs before the meta blob.
FrameWritesSetsFirst(rows, meta) ==
    LET metaBin == EncodeMeta(meta)
        bins    == EncodeBins(rows)
    IN  << PutU8(Len(bins)), PutU32(Len(metaBin)) >>
        \o [n \in 1..Len(bins) |-> PutU32(Len(bins[n]))]
        \o bins \o << metaBin >>

\* The Write calls of one Append, in order: K, Lm, the K lengths, the meta
\* blob, the K set blobs.
FrameWrites(rows, meta) ==
    LET metaBin == EncodeMeta(meta)
        bins    == EncodeBins(rows)
    IN  << PutU8(Len(bins)), PutU32(Len(metaBin)) >>
        \o [n \in 1..Len(bins) |-> PutU32(Len(bins[n]))]
        \o << metaBin >> \o bins

\* The bytes of one whole batch.
Frame(rows, meta) == Flatten(FrameWrites(rows, meta))

\* What the caller passes to Append: values the codec encodes and rows with a
\* field for every column ("ok"), a meta the codec cannot encode, a column
\* value the codec cannot encode, or rows of a type without the field Bar.
AppendInputs == {"ok", "bad meta", "bad column", "no field"}

\* An Append that writes K and the meta length before it encodes the column
\* sets.
PrepareHeaderFirst(rows, meta, input) ==
    IF input = "bad meta" THEN [err |-> "encode meta", writes |-> <<>>]
    ELSE IF input = "no field" /\ Len(rows) > 0 THEN [err |-> "panic", writes |-> <<>>]
    ELSE IF input = "bad column"
    THEN [err |-> "encode column set",
          writes |-> << PutU8(Len(colSets)), PutU32(Len(EncodeMeta(meta))) >>]
    ELSE [err |-> "nil", writes |-> FrameWrites(rows, meta)]

\* Append up to f.Lock(): the error it returns there, if any, and the Write
\* calls it goes on to make. f.encode(meta) fails first; the pivot calls
\* row.FieldByName(col).Type() for every declared column, which panics on the
\* zero Value of a missing field (with no rows the pivot does nothing, and
\* the sets are encoded with nil slices); then f.encode of a column set fails.
Prepare(rows, meta, input) ==
    IF input = "bad meta" THEN [err |-> "encode meta", writes |-> <<>>]
    ELSE IF input = "no field" /\ Len(rows) > 0 THEN [err |-> "panic", writes |-> <<>>]
    ELSE IF input = "bad column" THEN [err |-> "encode column set", writes |-> <<>>]
    ELSE [err |-> "nil", writes |-> FrameWrites(rows, meta)]

(***************************************************************************)
(* File.validate: the scan of the existing batches through f.file.         *)
(***************************************************************************)
\* The k length fields read from offset off, in order.
RECURSIVE ReadLenList(_, _, _, _)
ReadLenList(d, off, k, lens) ==
    IF k = 0 THEN [err |-> "nil", off |-> off, lens |-> lens]
    ELSE LET r == ReadFull(d, off, 4)
         IN  IF r.err # "nil" THEN [err |-> r.err, off |-> r.off, lens |-> lens]
             ELSE ReadLenList(d, r.off, k - 1, Append(lens, GetU32(r.bs)))

\* var sum uint32; sum += l for every l of lens, starting from sum.
RECURSIVE SumU32(_, _)
SumU32(sum, lens) ==
    IF lens = <<>> THEN sum ELSE SumU32(AddU32(sum, Head(lens)), Tail(lens))

\* var sum uint32; sum += l for every l of lens, on limbs.
RECURSIVE SumLimbs(_, _)
SumLimbs(sum, lens) ==
    IF lens = <<>> THEN sum ELSE SumLimbs(AddLimbs(sum, Head(lens)), Tail(lens))

\* file.Seek(int64(sum), os.SEEK_CUR): the number of bytes the handle moves
\* forward, as three 16-bit limbs. A uint32 converts to int64 as it is.
SeekAdvance(sum) == << 0, sum[1], sum[2] >>

\* validate on a header with the lengths lens (Lm first, then the Li): sum
\* takes Lm and every Li, and the handle seeks forward by it.
ValidateAdvance(lens) == SeekAdvance(SumLimbs(<<0, 0>>, lens))

\* IterMetas on the same header: it reads the meta blob, sum takes every Li,
\* and the handle seeks forward by it after the meta.
IterMetasAdvance(lens) == SeekAdvance(SumLimbs(<<0, 0>>, Tail(lens)))

\* The body of validateOnce.Do from offset off: the offset f.file is left at
\* and the error validate returns.
RECURSIVE ValidateScan(_, _)
ValidateScan(d, off) ==
    LET k == ReadFull(d, off, 1)
    IN  IF k.err # "nil" THEN [off |-> k.off, err |-> k.err]
        ELSE LET m == ReadFull(d, k.off, 4)
             IN  IF m.err # "nil" THEN [off |-> m.off, err |-> m.err]
                 ELSE LET ls == ReadLenList(d, m.off, k.bs[1], <<>>)
                      IN  IF ls.err # "nil" THEN [off |-> ls.off, err |-> ls.err]
                          ELSE ValidateScan(d,
                                   SeekCur(ls.off, SumU32(GetU32(m.bs), ls.lens)))

(***************************************************************************)
(* The iteration functions: what to decode, the framer's reads of one      *)
(* batch, and the decode closure handed to p1.                             *)
(***************************************************************************)
Range(f) == {f[i] : i \in DOMAIN f}

\* toCollect[n][j] of Iter: column j of set n is one of cols.
ToCollect(cols) ==
    [n \in 1..Len(colSets) |->
        [j \in 1..Len(colSets[n]) |-> colSets[n][j] \in Range(cols)]]

\* A framer that reads the blob of every column set, wanted or not.
ToDecodeEverySet(cols) == [n \in 1..Len(colSets) |-> TRUE]

\* toDecode[n] of Iter and IterAll: some column of set n is wanted.
ToDecode(cols) ==
    [n \in 1..Len(colSets) |->
        \E j \in 1..Len(colSets[n]) : colSets[n][j] \in Range(cols)]

\* A blob slot of a work item: nil when the set was skipped by Seek.
NilBlob == [present |-> FALSE, bs |-> <<>>]

\* for n, l := range lens: io.ReadFull when toDecode[n], else Seek.
RECURSIVE ReadBlobs(_, _, _, _, _)
ReadBlobs(d, off, lens, toDec, bss) ==
    IF Len(bss) = Len(lens) THEN [err |-> "nil", off |-> off, bss |-> bss]
    ELSE LET n == Len(bss) + 1
         IN  IF toDec[n]
             THEN LET r == ReadFull(d, off, lens[n])
                  IN  IF r.err # "nil"
                      THEN [err |-> r.err, off |-> r.off, bss |-> bss]
                      ELSE ReadBlobs(d, r.off, lens, toDec,
                                     Append(bss, [present |-> TRUE, bs |-> r.bs]))
             ELSE ReadBlobs(d, SeekCur(off, lens[n]), lens, toDec,
                            Append(bss, NilBlob))

\* The framer's reads of one batch after the K byte: the error, the offset of
\* the read handle, the raw bytes for the decode closure, and (IterMetas) the
\* seek still to do after p1.Do.
ReadBatch(mode, cols, d, off, numSets) ==
    LET bad(e, o) == [err |-> e, off |-> o, meta |-> <<>>, bss |-> <<>>, skip |-> 0]
        m  == ReadFull(d, off, 4)
        ls == ReadLenList(d, m.off, numSets, <<>>)
    IN  IF m.err # "nil" THEN bad(m.err, m.off)
        ELSE IF ls.err # "nil" THEN bad(ls.err, ls.off)
        ELSE IF mode = "IterMetas"
             THEN LET b == ReadFull(d, ls.off, GetU32(m.bs))
                  IN  IF b.err # "nil" THEN bad(b.err, b.off)
                      ELSE [err |-> "nil", off |-> b.off, meta |-> b.bs,
                            bss |-> <<>>, skip |-> SumU32(0, ls.lens)]
        ELSE IF mode = "Iter"
             THEN LET r == ReadBlobs(d, SeekCur(ls.off, GetU32(m.bs)), ls.lens,
                                     ToDecode(cols), <<>>)
                  IN  IF r.err # "nil" THEN bad(r.err, r.off)
                      ELSE [err |-> "nil", off |-> r.off, meta |-> <<>>,
                            bss |-> r.bss, skip |-> 0]
        ELSE LET b == ReadFull(d, ls.off, GetU32(m.bs))
                 r == ReadBlobs(d, b.off, ls.lens, ToDecode(cols), <<>>)
             IN  IF b.err # "nil" THEN bad(b.err, b.off)
                 ELSE IF r.err # "nil" THEN bad(r.err, r.off)
                 ELSE [err |-> "nil", off |-> r.off, meta |-> b.bs,
                       bss |-> r.bss, skip |-> 0]

\* A closure that takes the k-th collected column of a set from the k-th
\* field of the decoded value, not from the field of that column.
CollectedByRank(n, val, cols) ==
    LET idx == {j \in 1..Len(colSets[n]) : colSets[n][j] \in Range(cols)}
        rank(j) == Cardinality({i \in idx : i <= j})
        RECURSIVE pick(_)
        pick(j) == IF j > Len(colSets[n]) THEN <<>>
                   ELSE (IF j \in idx
                         THEN << [name |-> colSets[n][j], arr |-> val[rank(j)]] >>
                         ELSE <<>>) \o pick(j + 1)
    IN  pick(1)

\* The columns one decoded set contributes: its collected fields, in field
\* order, each with the name of the column it was taken from.
Collected(n, val, cols) ==
    LET idx == {j \in 1..Len(colSets[n]) : colSets[n][j] \in Range(cols)}
        RECURSIVE pick(_)
        pick(j) == IF j > Len(colSets[n]) THEN <<>>
                   ELSE (IF j \in idx
                         THEN << [name |-> colSets[n][j], arr |-> val[j]] >>
                         ELSE <<>>) \o pick(j + 1)
    IN  pick(1)

\* for n, bs := range bss: decode the sets read, stop at the first error.
RECURSIVE DecodeSets(_, _, _, _)
DecodeSets(bss, cols, n, acc) ==
    IF n > Len(bss) THEN [err |-> "nil", cols |-> acc]
    ELSE IF ~bss[n].present THEN DecodeSets(bss, cols, n + 1, acc)
    ELSE LET r == DecodeSet(n - 1, bss[n].bs)
         IN  IF r.err # "nil" THEN [err |-> r.err, cols |-> acc]
             ELSE DecodeSets(bss, cols, n + 1, acc \o Collected(n, r.val, cols))

\* The decode part of the closure given to p1.Do.
DecodeItem(mode, cols, item) ==
    LET m == DecodeMeta(item.meta)
        s == DecodeSets(item.bss, cols, 1, <<>>)
    IN  IF mode = "IterMetas" THEN [err |-> m.err, meta |-> m.val, cols |-> <<>>]
        ELSE IF mode = "Iter" THEN [err |-> s.err, meta |-> 0, cols |-> s.cols]
        ELSE IF m.err # "nil" THEN [err |-> m.err, meta |-> m.val, cols |-> <<>>]
        ELSE [err |-> s.err, meta |-> m.val, cols |-> s.cols]

(***************************************************************************)
(* The pipeline of one iteration call: line (closed, Err, the wait group), *)
(* the pipes p1 and p2, and the goroutines that serve them.                *)
(***************************************************************************)
\* line.NewPipe(30000) of Iter and IterAll, line.NewPipe(100000) of IterMetas.
P1Cap(mode) == IF mode = "IterMetas" THEN 100000 ELSE 30000

\* line.NewPipe(2048)
P2Cap == 2048

\* A callback stage run with p2.ParallelProcess(runtime.NumCPU()).
P2WorkersParallel == NumCPU

\* p2.Process(): the callback stage runs in the calling goroutine alone.
P2Workers == 1

Writers == {1, 2}

Decoders == 1..NumCPU

CbWorkers == 1..P2Workers

\* line.Error(e): the first error is latched and the pipeline is closed.
LineError(l, e) ==
    [l EXCEPT !.Err = IF l.Err = "nil" THEN e ELSE l.Err, !.closed = TRUE]

\* line.Close()
LineClose(l) == [l EXCEPT !.closed = TRUE]

\* line.Add()
LineAdd(l) == [l EXCEPT !.wg = l.wg + 1]

\* line.Done()
LineDone(l) == [l EXCEPT !.wg = l.wg - 1]

\* A closure that goes on to line.Done() whatever the callback returns.
AfterCallbackAlwaysDone(l, ok) == LineDone(l)

\* A closure that returns after the callback without line.Done().
AfterCallbackNoDone(l, ok) == IF ~ok THEN LineClose(l) ELSE l

\* The end of the closure given to p2.Do: if !cb(...) { line.Close(); return };
\* line.Done().
AfterCallback(l, ok) == IF ~ok THEN LineClose(l) ELSE LineDone(l)

\* The fields of IterAll's columnsTarget in the tests.
TargetCols == <<"Foo", "Baz">>

\* An assign that sets metaTarget and leaves columnsTarget as it was.
AssignSlotsMetaOnly(sl, item) == [sl EXCEPT !.meta = item.meta]

\* IterAll's "assign": metaTarget and every collected field of columnsTarget
\* are set from the decoded work item.
AssignSlots(sl, item) ==
    [meta |-> item.meta,
     cols |-> [c \in DOMAIN sl.cols |->
                 IF \E i \in 1..Len(item.cols) : item.cols[i].name = c
                 THEN (CHOOSE x \in Range(item.cols) : x.name = c).arr
                 ELSE sl.cols[c]]]

\* An iteration that reads through f.file: its reads move the offset of the
\* handle Append writes through.
SharedHandle(w, r) == r

\* file, err := os.Open(f.path): the iteration reads through a handle of its
\* own, at offset r; the offset w of f.file stays what it is.
OwnHandle(w, r) == w

\* A validate that runs its scan in every call.
OnceForgets(done) == FALSE

\* f.validateOnce.Do(body): the body is not run when it has run before.
OnceDone(done) == done

\* An Append that writes without taking the mutex.
CanLockAlways(m) == TRUE

\* f.Lock() succeeds when no goroutine holds the mutex.
CanLock(m) == m = 0

(***************************************************************************)
(* State.                                                                  *)
(***************************************************************************)
VARIABLES
    disk,       \* the bytes of the file at f.path
    woff,       \* the offset of f.file, the handle of validate and Append
    validated,  \* f.validateOnce has run
    scans,      \* the runs of the body given to f.validateOnce.Do, on this File
    mu,         \* the holder of f's mutex, 0 when free
    wr,         \* per writer goroutine: where it is in Append
    nAppends,   \* Append calls made so far
    appended,   \* the batches in the order their Appends took the lock
    returned,   \* the metas of the Appends that have returned
    preOpen,    \* the batches appended before the file was reopened
    reopened,   \* the file was closed and opened again by New
    damaged,    \* what happened to the file behind the program's back
    cutAt,      \* the length the file was cut to (0: it was not cut)
    hdrScan,    \* a header with lengths of the whole uint32 range, and how far
                \* validate or IterMetas moved its handle from the end of it
    factory,    \* the colSetsFn given to New: the field names of each struct
    newRet,     \* what New returned: the error and the colSets of the File
    it,         \* the iteration call: mode, cols, state, return value, and
                \* whether its File is the one New returned at the reopening
    roff,       \* the offset of the iteration's read-only handle
    fr,         \* the framer goroutine
    err,        \* the err variable the framer goroutine assigns
    line,       \* the pipeline: closed, Err, wait group counter
    p1,         \* the queue of decode closures
    p2,         \* the queue of callback closures
    dec,        \* the decoder goroutines of p1.ParallelProcess
    cbw,        \* the goroutines of the callback stage
    slots,      \* IterAll's metaTarget and columnsTarget
    calls,      \* the callback invocations of the iteration, in order
    inCb,       \* callback invocations in progress
    atCall      \* at the iteration call: the metas already returned by Append

fileVars == <<disk, woff, validated, scans, mu>>

writerVars == <<wr, nAppends, appended, returned>>

envVars == <<preOpen, reopened, damaged, cutAt, hdrScan, factory, newRet>>

pipeVars == <<roff, fr, err, line, p1, p2, dec, cbw, slots, calls, inCb>>

iterVars == <<it, atCall, roff, fr, err, line, p1, p2, dec, cbw, slots, calls, inCb>>

vars == <<disk, woff, validated, scans, mu, wr, nAppends, appended, returned,
          preOpen, reopened, damaged, cutAt, hdrScan, factory, newRet, it, roff, fr, err, line, p1, p2, dec, cbw, slots, calls,
          inCb, atCall>>

NoRaw == [idx |-> 0, meta |-> <<>>, bss |-> <<>>]

NoItem == [idx |-> 0, meta |-> 0, cols |-> <<>>]

IdleWriter == [pc |-> "idle", writes |-> <<>>, meta |-> 0, res |-> "nil"]

IdleIter == [pc |-> "idle", mode |-> "none", cols |-> <<>>, stopAt |-> 0,
             result |-> "nil", reopened |-> FALSE]

NewFramer == [pc |-> "read", numSets |-> 0, n |-> 0]

NewLine == [closed |-> FALSE, Err |-> "nil", wg |-> 0]

NewSlots == [meta |-> 0, cols |-> [c \in Range(TargetCols) |-> <<>>]]

\* The iteration calls of the callers: the function, its cols (for IterAll the
\* fields of columnsTarget).
IterInputs ==
    { [mode |-> "IterMetas", cols |-> <<>>],
      [mode |-> "Iter", cols |-> <<"Foo", "Baz">>],
      [mode |-> "Iter", cols |-> <<"Bar">>],
      [mode |-> "Iter", cols |-> <<"Foo">>],
      [mode |-> "Iter", cols |-> <<"Baz", "Foo">>],
      [mode |-> "IterAll", cols |-> TargetCols] }

\* Calls of Iter with a name in cols that no column set declares.
UnknownInputs ==
    { [mode |-> "Iter", cols |-> <<"Foo", "Qux">>],
      [mode |-> "Iter", cols |-> <<"Qux">>] }

\* The invocation at which the callback returns false (0: it never does).
StopInputs == 0..MaxAppends

\* No header of the kind is looked at.
NoScan == [lens |-> <<>>, by |-> "none", adv |-> <<0, 0, 0>>]

\* An empty path and no call made yet.
FreshFile ==
    /\ disk = <<>>
    /\ woff = 0
    /\ validated = FALSE
    /\ scans = 0
    /\ mu = 0
    /\ wr = [w \in Writers |-> IdleWriter]
    /\ nAppends = 0
    /\ appended = <<>>
    /\ returned = {}
    /\ preOpen = <<>>
    /\ reopened = FALSE
    /\ damaged = "no"
    /\ cutAt = 0
    /\ it = IdleIter
    /\ roff = 0
    /\ fr = [NewFramer EXCEPT !.pc = "exit"]
    /\ err = "nil"
    /\ line = NewLine
    /\ p1 = <<>>
    /\ p2 = <<>>
    /\ dec = [d \in Decoders |-> [pc |-> "exit", raw |-> NoRaw, err |-> "nil", out |-> NoItem]]
    /\ cbw = [c \in CbWorkers |-> [pc |-> "exit", item |-> NoItem, seq |-> 0]]
    /\ slots = NewSlots
    /\ calls = <<>>
    /\ inCb = 0
    /\ atCall = {}

\* An empty path, no call made yet, and no header apart from those the
\* Appends will write.
Fresh == FreshFile /\ hdrScan = NoScan

\* New(path, colSetsFn) on a path without a file: colSetsFn(n) is called for
\* n = 0, 1, ... until it returns nil, and the names of the fields of each
\* struct become one column set; the File is returned with a nil error.
NewFile(fac) ==
    [err |-> "nil",
     colSets |-> [n \in 1..Len(fac) |-> [i \in 1..Len(fac[n]) |-> fac[n][i]]]]

\* The File of the tests, as New returns it.
Init ==
    /\ Fresh
    /\ factory = colSets
    /\ newRet = NewFile(factory)

\* New has not been called.
NoFile == [err |-> "none", colSets |-> <<>>]

\* Sequences of one or two different column names: the fields of a struct.
FieldLists ==
    {<<c>> : c \in ColNames}
        \cup {p \in {<<c, e>> : c \in ColNames, e \in ColNames} : p[1] # p[2]}

\* The factories callers may pass to New: one or two structs.
Factories ==
    {<<a>> : a \in FieldLists} \cup {<<a, b>> : a \in FieldLists, b \in FieldLists}

\* Before New is called with some factory.
InitNew ==
    /\ Fresh
    /\ factory \in Factories
    /\ newRet = NoFile

\* New(path, colSetsFn)
NewCall ==
    /\ newRet = NoFile
    /\ newRet' = NewFile(factory)
    /\ UNCHANGED <<preOpen, reopened, damaged, cutAt, hdrScan, factory>>
    /\ UNCHANGED fileVars
    /\ UNCHANGED writerVars
    /\ UNCHANGED iterVars

(***************************************************************************)
(* File.Append, by the writer goroutines.                                  *)
(***************************************************************************)
\* A goroutine of the program has panicked: the program is gone.
Crashed == \E w \in Writers : wr[w].pc = "panic"

\* Append up to f.Lock(): f.validate() (the scan runs in the first call only),
\* the encoding of meta, the pivot and the encoding of the column sets. The
\* call returns here when one of them fails, and panics when the pivot does.
AppendCallWith(w, input) ==
    /\ ~Crashed
    /\ wr[w].pc = "idle"
    /\ nAppends < MaxAppends
    /\ LET m == nAppends + 1
           p == Prepare(RowsOf(m), m, input)
       IN  wr' = [wr EXCEPT ![w] =
                    [pc     |-> IF p.err = "panic" THEN "panic"
                                ELSE IF p.writes = <<>> THEN "idle" ELSE "lock",
                     meta   |-> IF p.writes = <<>> THEN 0 ELSE m,
                     writes |-> p.writes,
                     res    |-> p.err]]
    /\ woff' = IF OnceDone(validated) THEN woff ELSE ValidateScan(disk, woff).off
    /\ scans' = IF OnceDone(validated) THEN scans ELSE scans + 1
    /\ validated' = TRUE
    /\ nAppends' = nAppends + 1
    /\ UNCHANGED <<disk, mu, appended, returned>>
    /\ UNCHANGED envVars
    /\ UNCHANGED iterVars

\* Append of rows and a meta that the codec encodes.
AppendCall(w) == AppendCallWith(w, "ok")

\* f.Lock()
AppendLock(w) ==
    /\ ~Crashed
    /\ wr[w].pc = "lock"
    /\ CanLock(mu)
    /\ mu' = w
    /\ appended' = Append(appended, wr[w].meta)
    /\ wr' = [wr EXCEPT ![w].pc = "write"]
    /\ UNCHANGED <<disk, woff, validated, scans, nAppends, returned>>
    /\ UNCHANGED envVars
    /\ UNCHANGED iterVars

\* One binary.Write or f.file.Write of the batch.
AppendWrite(w) ==
    /\ ~Crashed
    /\ wr[w].pc = "write"
    /\ wr[w].writes # <<>>
    /\ disk' = WriteAt(disk, woff, Head(wr[w].writes))
    /\ woff' = woff + Len(Head(wr[w].writes))
    /\ wr' = [wr EXCEPT ![w].writes = Tail(wr[w].writes)]
    /\ UNCHANGED <<validated, scans, mu, nAppends, appended, returned>>
    /\ UNCHANGED envVars
    /\ UNCHANGED iterVars

\* return, with the deferred f.Unlock().
AppendReturn(w) ==
    /\ ~Crashed
    /\ wr[w].pc = "write"
    /\ wr[w].writes = <<>>
    /\ mu' = 0
    /\ returned' = IF wr[w].res = "nil" THEN returned \cup {wr[w].meta} ELSE returned
    /\ wr' = [wr EXCEPT ![w] = [IdleWriter EXCEPT !.res = wr[w].res]]
    /\ UNCHANGED <<disk, woff, validated, scans, nAppends, appended>>
    /\ UNCHANGED envVars
    /\ UNCHANGED iterVars

\* A binary.Write or f.file.Write of the batch fails after at least one has
\* succeeded (the disk is full, say) and writes nothing: Append returns the
\* error, with the deferred f.Unlock(). The bytes written before stay in the
\* file, and f.file stays at the offset after them.
AppendWriteFail(w) ==
    /\ ~Crashed
    /\ wr[w].pc = "write"
    /\ wr[w].writes # <<>>
    /\ Len(wr[w].writes) < Len(FrameWrites(RowsOf(wr[w].meta), wr[w].meta))
    /\ mu' = 0
    /\ wr' = [wr EXCEPT ![w] = [IdleWriter EXCEPT !.res = "write"]]
    /\ UNCHANGED <<disk, woff, validated, scans, nAppends, appended, returned>>
    /\ UNCHANGED envVars
    /\ UNCHANGED iterVars

\* The goroutines an iteration call has started can take no further step:
\* each has returned, or is the framer blocked in line.Wait() for good.
Settled ==
    /\ fr.pc = "exit" \/ (fr.pc = "wait" /\ line.closed /\ line.wg # 0)
    /\ \A d \in Decoders : dec[d].pc = "exit"
    /\ \A c \in CbWorkers : cbw[c].pc = "exit"

\* A single caller goroutine, as in the tests: it calls Append, an iteration
\* function or New only when its previous call has returned. (The goroutines
\* an iteration leaves behind share nothing with the caller's later calls, so
\* they are run to their end first.)
CallerFree ==
    /\ \A w \in Writers : wr[w].pc = "idle"
    /\ it.pc # "run"
    /\ it.pc = "returned" => Settled

\* f.Sync(), f.Close() and New on the same path with the same factory, by a
\* caller with no Append and no iteration in progress.
Reopen ==
    /\ ~Crashed
    /\ ~reopened
    /\ CallerFree
    /\ CanLock(mu)
    /\ reopened' = TRUE
    /\ preOpen' = appended
    /\ woff' = 0
    /\ validated' = FALSE
    /\ scans' = 0
    /\ newRet' = NewFile(factory)
    /\ UNCHANGED <<disk, mu, damaged, cutAt, hdrScan, factory>>
    /\ UNCHANGED writerVars
    /\ UNCHANGED iterVars

(***************************************************************************)
(* Files that were damaged after the program wrote them.                   *)
(***************************************************************************)
\* The offset at which batch b of a file of whole batches ms starts.
BatchStart(ms, b) == Len(Flatten([i \in 1..(b - 1) |-> Frame(RowsOf(ms[i]), ms[i])]))

\* The offset of blob s of batch b (0: the meta blob, n: column set n - 1),
\* after the header of 1 + 4 + 4K bytes and the blobs before it.
BlobStart(ms, b, s) ==
    LET w == FrameWrites(RowsOf(ms[b]), ms[b])
        k == Len(colSets)
    IN  BatchStart(ms, b) + Len(Flatten(SubSeq(w, 1, 2 + k + s)))

\* The file loses its tail from some byte inside its last batch on (a crash
\* during the Append of that batch), or the first byte of one blob is
\* overwritten with zero (the codec will not decode that blob). The caller
\* has no call in progress and has not iterated yet.
Damage ==
    /\ damaged = "no"
    /\ CallerFree
    /\ it.pc = "idle"
    /\ appended # <<>>
    /\ \/ \E n \in (BatchStart(appended, Len(appended)) + 1)..(Len(disk) - 1) :
            /\ disk' = SubSeq(disk, 1, n)
            /\ damaged' = "truncated"
            /\ cutAt' = n
       \/ \E b \in DOMAIN appended, s \in 0..Len(colSets) :
            /\ disk' = [disk EXCEPT ![BlobStart(appended, b, s) + 1] = 0]
            /\ damaged' = "corrupt"
            /\ UNCHANGED cutAt
    /\ UNCHANGED <<woff, validated, scans, mu, preOpen, reopened, hdrScan, factory, newRet>>
    /\ UNCHANGED writerVars
    /\ UNCHANGED iterVars

(***************************************************************************)
(* IterMetas, Iter and IterAll.                                            *)
(***************************************************************************)
\* The call up to the start of the goroutines: f.Sync() (which takes the
\* mutex), os.Open(f.path), toDecode, the pipeline and its pipes.
IterCallWith(inputs) ==
    /\ it.pc = "idle"
    /\ CanLock(mu)
    /\ \E inp \in inputs, k \in StopInputs :
          it' = [pc |-> "run", mode |-> inp.mode, cols |-> inp.cols,
                 stopAt |-> k, result |-> "nil", reopened |-> reopened]
    /\ atCall' = returned
    /\ roff' = 0
    /\ fr' = NewFramer
    /\ err' = "nil"
    /\ line' = NewLine
    /\ p1' = <<>>
    /\ p2' = <<>>
    /\ dec' = [d \in Decoders |-> [dec[d] EXCEPT !.pc = "idle"]]
    /\ cbw' = [c \in CbWorkers |-> [cbw[c] EXCEPT !.pc = "idle"]]
    /\ slots' = NewSlots
    /\ calls' = <<>>
    /\ inCb' = 0
    /\ woff' = OwnHandle(woff, roff')
    /\ UNCHANGED <<disk, validated, scans, mu>>
    /\ UNCHANGED writerVars
    /\ UNCHANGED envVars

\* An iteration call of a caller who asks for declared columns.
IterCall == IterCallWith(IterInputs)

\* The framer: err = binary.Read(file, binary.LittleEndian, &numSets)
FramerRead ==
    /\ fr.pc = "read"
    /\ LET r == ReadFull(disk, roff, 1)
       IN  /\ roff' = r.off
           /\ err' = r.err
           /\ fr' = [fr EXCEPT !.pc = "test",
                               !.numSets = IF r.err = "nil" THEN r.bs[1] ELSE 0]
    /\ UNCHANGED <<it, atCall, line, p1, p2, dec, cbw, slots, calls, inCb>>
    /\ woff' = OwnHandle(woff, roff')
    /\ UNCHANGED <<disk, validated, scans, mu>>
    /\ UNCHANGED writerVars
    /\ UNCHANGED envVars

\* The framer: the tests of err after the read of numSets, the reads of the
\* rest of the batch, line.Add(), p1.Do(closure) (which returns false once the
\* pipeline is closed) and (IterMetas) the seek over the column sets. cap is
\* the capacity p1 was made with: p1.Do blocks while p1 holds cap closures
\* and the pipeline is open.
FramerBatchWith(cap) ==
    /\ fr.pc = "test"
    /\ IF err = "EOF"
       THEN /\ fr' = [fr EXCEPT !.pc = "wait"]
            /\ UNCHANGED <<roff, err, line, p1>>
       ELSE IF err # "nil"
       THEN /\ line' = LineError(line, err)
            /\ fr' = [fr EXCEPT !.pc = "exit"]
            /\ UNCHANGED <<roff, err, p1>>
       ELSE LET b == ReadBatch(it.mode, it.cols, disk, roff, fr.numSets)
            IN  IF b.err # "nil"
                THEN /\ line' = LineError(line, b.err)
                     /\ fr' = [fr EXCEPT !.pc = "exit"]
                     /\ roff' = b.off
                     /\ err' = b.err
                     /\ UNCHANGED p1
                ELSE IF line.closed
                THEN /\ line' = LineAdd(line)
                     /\ fr' = [fr EXCEPT !.pc = "exit"]
                     /\ roff' = b.off
                     /\ err' = "nil"
                     /\ UNCHANGED p1
                ELSE /\ Len(p1) < cap
                     /\ line' = LineAdd(line)
                     /\ p1' = Append(p1, [idx |-> fr.n + 1, meta |-> b.meta,
                                          bss |-> b.bss])
                     /\ roff' = SeekCur(b.off, b.skip)
                     /\ err' = "nil"
                     /\ fr' = [fr EXCEPT !.pc = "read", !.n = fr.n + 1]
    /\ UNCHANGED <<it, atCall, p2, dec, cbw, slots, calls, inCb>>
    /\ woff' = OwnHandle(woff, roff')
    /\ UNCHANGED <<disk, validated, scans, mu>>
    /\ UNCHANGED writerVars
    /\ UNCHANGED envVars

\* The framer's batch with the queue of the code: line.NewPipe(30000), or
\* line.NewPipe(100000) in IterMetas.
FramerBatch == FramerBatchWith(P1Cap(it.mode))

\* The framer after the loop: line.Wait(); line.Close()
FramerWait ==
    /\ fr.pc = "wait"
    /\ line.wg = 0
    /\ line' = LineClose(line)
    /\ fr' = [fr EXCEPT !.pc = "exit"]
    /\ UNCHANGED <<it, atCall, roff, err, p1, p2, dec, cbw, slots, calls, inCb>>
    /\ UNCHANGED fileVars
    /\ UNCHANGED writerVars
    /\ UNCHANGED envVars

\* A goroutine of p1.ParallelProcess takes the next closure, or returns when
\* the pipeline is closed.
DecTake(d) ==
    /\ dec[d].pc = "idle"
    /\ IF line.closed
       THEN /\ dec' = [dec EXCEPT ![d].pc = "exit"]
            /\ UNCHANGED p1
       ELSE /\ p1 # <<>>
            /\ dec' = [dec EXCEPT ![d].pc = "decode", ![d].raw = Head(p1)]
            /\ p1' = Tail(p1)
    /\ UNCHANGED <<it, atCall, roff, fr, err, line, p2, cbw, slots, calls, inCb>>
    /\ UNCHANGED fileVars
    /\ UNCHANGED writerVars
    /\ UNCHANGED envVars

\* The closure from if err != nil on: line.Error(...) and return, or
\* p2.Do(closure), which returns false once the pipeline is closed. e is the
\* value the test reads, out the decoded work item, cap the capacity p2 was
\* made with.
DecoderEndWith(d, e, out, cap) ==
    /\ IF e # "nil"
       THEN /\ line' = LineError(line, e)
            /\ UNCHANGED p2
       ELSE IF line.closed
       THEN UNCHANGED <<line, p2>>
       ELSE /\ Len(p2) < cap
            /\ p2' = Append(p2, out)
            /\ UNCHANGED line
    /\ dec' = [dec EXCEPT ![d] = [pc |-> "idle", raw |-> NoRaw, err |-> "nil",
                                  out |-> NoItem]]

\* The end of the closure with the queue of the code: line.NewPipe(2048).
DecoderEnd(d, e, out) == DecoderEndWith(d, e, out, P2Cap)

\* The closure given to p1.Do: f.decode of the meta and of the sets read.
\* IterMetas assigns the result to the err variable the framer goroutine
\* uses, and tests that variable afterwards; Iter and IterAll test their own.
\* cap is the capacity p2 was made with.
DecDecodeWith(d, cap) ==
    /\ dec[d].pc = "decode"
    /\ LET r   == DecodeItem(it.mode, it.cols, dec[d].raw)
           out == [idx |-> dec[d].raw.idx, meta |-> r.meta, cols |-> r.cols]
       IN  IF it.mode = "IterMetas"
           THEN /\ dec' = [dec EXCEPT ![d] = [pc |-> "test", raw |-> NoRaw,
                                              err |-> r.err, out |-> out]]
                /\ err' = r.err
                /\ UNCHANGED <<line, p2>>
           ELSE /\ DecoderEndWith(d, r.err, out, cap)
                /\ UNCHANGED err
    /\ UNCHANGED <<it, atCall, roff, fr, p1, cbw, slots, calls, inCb>>
    /\ UNCHANGED fileVars
    /\ UNCHANGED writerVars
    /\ UNCHANGED envVars

\* The decode closure with the queue of the code.
DecDecode(d) == DecDecodeWith(d, P2Cap)

\* IterMetas: the closure's test of the shared err.
DecTestWith(d, cap) ==
    /\ dec[d].pc = "test"
    /\ DecoderEndWith(d, err, dec[d].out, cap)
    /\ UNCHANGED <<it, atCall, roff, fr, err, p1, cbw, slots, calls, inCb>>
    /\ UNCHANGED fileVars
    /\ UNCHANGED writerVars
    /\ UNCHANGED envVars

\* The test of the shared err with the queue of the code.
DecTest(d) == DecTestWith(d, P2Cap)

\* What the callback is invoked with: the meta and the column arrays, each
\* with the column it was collected from (for IterAll, the slots).
Delivered(mode, item, sl) ==
    IF mode = "IterAll"
    THEN [idx |-> item.idx, meta |-> sl.meta,
          cols |-> [i \in 1..Len(TargetCols) |->
                      [name |-> TargetCols[i], arr |-> sl.cols[TargetCols[i]]]]]
    ELSE [idx |-> item.idx, meta |-> item.meta, cols |-> item.cols]

\* p2.Process takes the next closure, or returns when the pipeline is closed.
CbTake(c) ==
    /\ cbw[c].pc = "idle"
    /\ IF line.closed
       THEN /\ cbw' = [cbw EXCEPT ![c].pc = "exit"]
            /\ UNCHANGED p2
       ELSE /\ p2 # <<>>
            /\ cbw' = [cbw EXCEPT ![c].pc = "call", ![c].item = Head(p2)]
            /\ p2' = Tail(p2)
    /\ UNCHANGED <<it, atCall, roff, fr, err, line, p1, dec, slots, calls, inCb>>
    /\ UNCHANGED fileVars
    /\ UNCHANGED writerVars
    /\ UNCHANGED envVars

\* The closure of p2: (IterAll) assign the slots, then enter the callback.
CbCall(c) ==
    /\ cbw[c].pc = "call"
    /\ LET sl == IF it.mode = "IterAll" THEN AssignSlots(slots, cbw[c].item)
                 ELSE slots
       IN  /\ slots' = sl
           /\ calls' = Append(calls, Delivered(it.mode, cbw[c].item, sl))
    /\ inCb' = inCb + 1
    /\ cbw' = [cbw EXCEPT ![c].pc = "ret", ![c].seq = Len(calls) + 1,
                          ![c].item = NoItem]
    /\ UNCHANGED <<it, atCall, roff, fr, err, line, p1, p2, dec>>
    /\ UNCHANGED fileVars
    /\ UNCHANGED writerVars
    /\ UNCHANGED envVars

\* The callback returns: false at invocation stopAt, true otherwise.
CbReturn(c) ==
    /\ cbw[c].pc = "ret"
    /\ line' = AfterCallback(line, cbw[c].seq # it.stopAt)
    /\ inCb' = inCb - 1
    /\ cbw' = [cbw EXCEPT ![c].pc = "idle", ![c].seq = 0]
    /\ UNCHANGED <<it, atCall, roff, fr, err, p1, p2, dec, slots, calls>>
    /\ UNCHANGED fileVars
    /\ UNCHANGED writerVars
    /\ UNCHANGED envVars

\* p2.Process() has returned: return line.Err
IterReturn ==
    /\ it.pc = "run"
    /\ \A c \in CbWorkers : cbw[c].pc = "exit"
    /\ it' = [it EXCEPT !.pc = "returned", !.result = line.Err]
    /\ UNCHANGED <<atCall, roff, fr, err, line, p1, p2, dec, cbw, slots, calls, inCb>>
    /\ UNCHANGED fileVars
    /\ UNCHANGED writerVars
    /\ UNCHANGED envVars

\* The callers of the tests: one goroutine that appends, reopens and iterates,
\* with the goroutines of the iteration interleaved in every way.
Next ==
    \/ \E w \in Writers : CallerFree /\ AppendCall(w)
    \/ \E w \in Writers : AppendLock(w)
    \/ \E w \in Writers : AppendWrite(w)
    \/ \E w \in Writers : AppendReturn(w)
    \/ Reopen
    \/ CallerFree /\ IterCall
    \/ FramerRead
    \/ FramerBatch
    \/ FramerWait
    \/ \E d \in Decoders : DecTake(d)
    \/ \E d \in Decoders : DecDecode(d)
    \/ \E d \in Decoders : DecTest(d)
    \/ \E c \in CbWorkers : CbTake(c)
    \/ \E c \in CbWorkers : CbCall(c)
    \/ \E c \in CbWorkers : CbReturn(c)
    \/ IterReturn

Spec == Init /\ [][Next]_vars

\* A step of a goroutine of the iteration other than the framer's reads of a
\* batch, or the return of the call.
GoroutineStep ==
    \/ FramerRead
    \/ FramerWait
    \/ \E d \in Decoders : DecTake(d) \/ DecDecode(d) \/ DecTest(d)
    \/ \E c \in CbWorkers : CbTake(c) \/ CbCall(c) \/ CbReturn(c)
    \/ IterReturn

\* The Go scheduler runs the goroutines that can take a step, and the
\* callback returns: the iteration does not stop while one of its goroutines
\* can go on. (Every goroutine takes finitely many steps, so this is as strong
\* as fairness for each goroutine by itself.) FramerBatch is possible exactly
\* when the framer is at its test of err, the queue p1 never being full
\* here, so its weak fairness is that the framer does not stay there.
Fairness ==
    /\ WF_vars(GoroutineStep)
    /\ []<>(fr.pc # "test")

SpecFair == Init /\ [][Next]_vars /\ Fairness

\* Writer goroutines that call Append concurrently on one File, and a caller
\* that reopens the file between their calls.
NextAppend ==
    \/ \E w \in Writers, input \in AppendInputs : AppendCallWith(w, input)
    \/ \E w \in Writers : AppendLock(w)
    \/ \E w \in Writers : AppendWrite(w)
    \/ \E w \in Writers : AppendReturn(w)
    \/ Reopen

SpecAppend == Init /\ [][NextAppend]_vars

\* Writer goroutines that call Append while another goroutine iterates.
NextConc ==
    \/ \E w \in Writers : AppendCall(w)
    \/ \E w \in Writers : AppendLock(w)
    \/ \E w \in Writers : AppendWrite(w)
    \/ \E w \in Writers : AppendReturn(w)
    \/ IterCall
    \/ FramerRead
    \/ FramerBatch
    \/ FramerWait
    \/ \E d \in Decoders : DecTake(d)
    \/ \E d \in Decoders : DecDecode(d)
    \/ \E d \in Decoders : DecTest(d)
    \/ \E c \in CbWorkers : CbTake(c)
    \/ \E c \in CbWorkers : CbCall(c)
    \/ \E c \in CbWorkers : CbReturn(c)
    \/ IterReturn

SpecConc == Init /\ [][NextConc]_vars

\* One caller that appends, then iterates over the file after it was damaged.
NextDamage ==
    \/ \E w \in Writers : damaged = "no" /\ CallerFree /\ AppendCall(w)
    \/ \E w \in Writers : AppendLock(w)
    \/ \E w \in Writers : AppendWrite(w)
    \/ \E w \in Writers : AppendReturn(w)
    \/ Damage
    \/ damaged # "no" /\ CallerFree /\ IterCall
    \/ FramerRead
    \/ FramerBatch
    \/ FramerWait
    \/ \E d \in Decoders : DecTake(d)
    \/ \E d \in Decoders : DecDecode(d)
    \/ \E d \in Decoders : DecTest(d)
    \/ \E c \in CbWorkers : CbTake(c)
    \/ \E c \in CbWorkers : CbCall(c)
    \/ \E c \in CbWorkers : CbReturn(c)
    \/ IterReturn

SpecDamage == Init /\ [][NextDamage]_vars

\* One caller who appends and calls Iter with a name no set declares (the
\* closures of Iter test an err of their own: there is no DecTest step).
NextUnknown ==
    \/ \E w \in Writers : CallerFree /\ AppendCall(w)
    \/ \E w \in Writers : AppendLock(w)
    \/ \E w \in Writers : AppendWrite(w)
    \/ \E w \in Writers : AppendReturn(w)
    \/ CallerFree /\ IterCallWith(UnknownInputs)
    \/ FramerRead
    \/ FramerBatch
    \/ FramerWait
    \/ \E d \in Decoders : DecTake(d)
    \/ \E d \in Decoders : DecDecode(d)
    \/ \E c \in CbWorkers : CbTake(c)
    \/ \E c \in CbWorkers : CbCall(c)
    \/ \E c \in CbWorkers : CbReturn(c)
    \/ IterReturn

SpecUnknown == Init /\ [][NextUnknown]_vars

\* One caller whose Appends may fail with an I/O error part-way, and who goes
\* on to append through the same File and to iterate.
NextIOFail ==
    \/ \E w \in Writers : CallerFree /\ AppendCall(w)
    \/ \E w \in Writers : AppendLock(w)
    \/ \E w \in Writers : AppendWrite(w)
    \/ \E w \in Writers : AppendWriteFail(w)
    \/ \E w \in Writers : AppendReturn(w)
    \/ CallerFree /\ IterCall
    \/ FramerRead
    \/ FramerBatch
    \/ FramerWait
    \/ \E d \in Decoders : DecTake(d)
    \/ \E d \in Decoders : DecDecode(d)
    \/ \E d \in Decoders : DecTest(d)
    \/ \E c \in CbWorkers : CbTake(c)
    \/ \E c \in CbWorkers : CbCall(c)
    \/ \E c \in CbWorkers : CbReturn(c)
    \/ IterReturn

SpecIOFail == Init /\ [][NextIOFail]_vars

\* A program that appends and is killed during its last Append, which leaves
\* the file cut inside the last batch; started again, it opens the file and
\* appends.
NextRepair ==
    \/ \E w \in Writers :
          (damaged = "no" \/ reopened) /\ CallerFree /\ AppendCall(w)
    \/ \E w \in Writers : AppendLock(w)
    \/ \E w \in Writers : AppendWrite(w)
    \/ \E w \in Writers : AppendReturn(w)
    \/ damaged = "no" /\ ~reopened /\ Damage
    \/ damaged # "no" /\ Reopen

SpecRepair == Init /\ [][NextRepair]_vars

\* Values of a length field, over the whole range of a uint32: 0, 2,
\* 2^31 - 1, 2^31 and 2^32 - 1, as limbs.
Lengths == { <<0, 0>>, <<0, 2>>, <<32767, 65535>>, <<32768, 0>>, <<65535, 65535>> }

\* The length fields of a header of K sets: Lm, then the K lengths.
RECURSIVE LenLists(_)
LenLists(k) ==
    IF k = 0 THEN {<<l>> : l \in Lengths}
    ELSE {Append(ls, l) : ls \in LenLists(k - 1), l \in Lengths}

\* A header of K <= MaxSets sets with any lengths is in front of the handle
\* of validate or of the framer of IterMetas.
InitHeader ==
    /\ FreshFile
    /\ factory = colSets
    /\ newRet = NewFile(factory)
    /\ hdrScan \in {[NoScan EXCEPT !.lens = ls] :
                       ls \in UNION {LenLists(k) : k \in 0..MaxSets}}

\* validate reads the header and seeks over the blobs it declares.
ValidateHeader ==
    /\ hdrScan.by = "none"
    /\ hdrScan' = [hdrScan EXCEPT !.by = "validate",
                                  !.adv = ValidateAdvance(hdrScan.lens)]
    /\ UNCHANGED <<preOpen, reopened, damaged, cutAt, factory, newRet>>
    /\ UNCHANGED fileVars
    /\ UNCHANGED writerVars
    /\ UNCHANGED iterVars

\* The framer of IterMetas reads the header and the meta blob, and seeks over
\* the set blobs the header declares.
IterMetasHeader ==
    /\ hdrScan.by = "none"
    /\ hdrScan' = [hdrScan EXCEPT !.by = "IterMetas",
                                  !.adv = IterMetasAdvance(hdrScan.lens)]
    /\ UNCHANGED <<preOpen, reopened, damaged, cutAt, factory, newRet>>
    /\ UNCHANGED fileVars
    /\ UNCHANGED writerVars
    /\ UNCHANGED iterVars

NextHeader == ValidateHeader \/ IterMetasHeader

SpecHeader == InitHeader /\ [][NextHeader]_vars

\* A caller that opens a file with one of the factories.
NextNew == NewCall

SpecNew == InitNew /\ [][NextNew]_vars

(***************************************************************************)
(* Properties.                                                             *)
(***************************************************************************)
\* Attribute c of the rows given to the Append of the batch with meta m, in
\* row order.
AttrOf(m, c) == [j \in 1..Len(RowsOf(m)) |-> RowsOf(m)[j][c]]

\* The bytes of the whole batches with the metas ms, one after the other.
FramesOf(ms) == Flatten([i \in 1..Len(ms) |-> Frame(RowsOf(ms[i]), ms[i])])

\* The i-th callback invocation delivers batch i of the file and delivers
\* exactly the arrays of the columns asked for.
WholeBatch(c) ==
    /\ c.idx \in DOMAIN appended
    /\ it.mode \in {"IterMetas", "IterAll"} => c.meta = appended[c.idx]
    /\ {c.cols[j].name : j \in DOMAIN c.cols} = Range(it.cols)
    /\ \A j \in DOMAIN c.cols :
          c.cols[j].arr = AttrOf(appended[c.idx], c.cols[j].name)

\* C1: IterMetas, Iter and IterAll invoke the callback for the batches in
\* their order in the file: invocation i is for batch i, whatever the number
\* of decoder goroutines.
C1_CallbackOrder == \A i \in DOMAIN calls : calls[i].idx = i

\* C2: with a callback that always returns true, an iteration over a file of
\* n batches has, when it returns, invoked the callback exactly once for each
\* batch, n times in all, and no invocation is still in progress.
C2_OncePerBatch ==
    (it.pc = "returned" /\ it.stopAt = 0) =>
        /\ Len(calls) = Cardinality(atCall)
        /\ {calls[i].idx : i \in DOMAIN calls} = 1..Cardinality(atCall)
        /\ inCb = 0

\* C3: when the callback returns false at its k-th invocation there is no
\* further invocation, the total is k, also with later batches waiting in the
\* queue of the decoder stage or of the callback stage.
C3_StopAtFalse == (it.stopAt # 0) => Len(calls) <= it.stopAt

\* The callback returned false at its first invocation, the call has returned
\* and a later batch is still in the queue of the callback stage.
C3_Witness ==
    /\ it.pc = "returned"
    /\ it.stopAt = 1
    /\ Len(calls) = 1
    /\ inCb = 0
    /\ p2 # <<>>

\* C4: at every callback invocation of IterAll the meta slot and every
\* collected column slot hold the values of one and the same batch.
C4_SlotsOfOneBatch ==
    (it.mode = "IterAll") =>
        \A i \in DOMAIN calls :
            \E n \in DOMAIN appended :
                /\ calls[i].meta = appended[n]
                /\ \A j \in DOMAIN calls[i].cols :
                      calls[i].cols[j].arr = AttrOf(appended[n], calls[i].cols[j].name)

\* IterAll has invoked the callback twice, first for the second batch: the
\* decoder goroutines finished out of order.
C4_Witness ==
    /\ it.mode = "IterAll"
    /\ Len(calls) = 2
    /\ calls[1].idx = 2
    /\ calls[1].meta # calls[2].meta

DiskAsAppended ==
    LET busy == {w \in Writers : wr[w].pc = "write"}
    IN  IF busy = {}
        THEN disk = FramesOf(appended)
        ELSE \E w \in busy :
                LET m    == wr[w].meta
                    f    == Frame(RowsOf(m), m)
                    left == Len(Flatten(wr[w].writes))
                IN  /\ appended # <<>>
                    /\ m = appended[Len(appended)]
                    /\ disk = FramesOf(SubSeq(appended, 1, Len(appended) - 1))
                                \o SubSeq(f, 1, Len(f) - left)

\* C6: after Sync, Close and a reopening with the same factory, an iteration
\* on the new File still delivers every batch appended before, and the
\* batches appended through the new File lie after the old ones, whether or
\* not an iteration ran on the new File before its first Append.
C6_ReopenKeeps ==
    /\ reopened => DiskAsAppended
    /\ (it.reopened /\ it.pc = "returned" /\ it.stopAt = 0) =>
          \A n \in DOMAIN preOpen :
              \E i \in DOMAIN calls : calls[i].idx = n /\ WholeBatch(calls[i])

\* C7: Appends called concurrently on one File are serialized by its mutex:
\* the bytes of each batch are contiguous in the file, and the batches lie in
\* the order in which the Appends took the mutex.
C7_AppendsSerialized ==
    /\ Cardinality({w \in Writers : wr[w].pc = "write"}) <= 1
    /\ DiskAsAppended

\* One Append is part-way through its batch while the other, called before
\* it, waits for the mutex.
C7_Witness ==
    \E w, v \in Writers :
        /\ wr[w].pc = "write"
        /\ wr[w].writes # <<>>
        /\ Len(wr[w].writes) < Len(FrameWrites(RowsOf(wr[w].meta), wr[w].meta))
        /\ wr[v].pc = "lock"
        /\ wr[v].meta < wr[w].meta

\* C8: an iteration (here Iter or IterAll) that runs while other goroutines
\* Append returns no error and invokes the callback only for whole batches,
\* which form a prefix of the batches in their append order.
C8_IterUndisturbed ==
    (it.mode \in {"Iter", "IterAll"}) =>
        /\ it.pc = "returned" => it.result = "nil"
        /\ \A i \in DOMAIN calls : WholeBatch(calls[i])
        /\ (it.pc = "returned" /\ it.stopAt = 0) =>
              {calls[i].idx : i \in DOMAIN calls} = 1..Len(calls)

\* C9: an iteration whose callback always returns true delivers every batch
\* whose Append had returned before the iteration was called.
C9_ReturnedDelivered ==
    (it.pc = "returned" /\ it.stopAt = 0) =>
        \A m \in atCall :
            \E i \in DOMAIN calls :
                calls[i].idx \in DOMAIN appended /\ appended[calls[i].idx] = m

\* C10: the callback is invoked serially: no two invocations are in progress
\* at the same time.
C10_CallbackSerial == inCb <= 1

\* An invocation is in progress while the next batch, decoded, waits in the
\* queue of the callback stage.
C10_Witness ==
    /\ inCb = 1
    /\ p2 # <<>>
    /\ \E c \in CbWorkers : cbw[c].pc = "ret"

\* C11: when the callback returns false on a well-formed file, the iteration
\* function returns a nil error, in each of the three modes.
C11_FalseIsNoError ==
    (it.pc = "returned" /\ it.stopAt # 0 /\ Len(calls) >= it.stopAt) =>
        it.result = "nil"

\* C12: an iteration over a file that ends at a batch boundary returns a nil
\* error, in each of the three modes and however the framer's reads and
\* tests interleave with the decode closures.
C12_EofIsNormal == (it.pc = "returned") => it.result = "nil"


\* C13: when the file ends in the middle of a batch (in the header, in the
\* meta blob or in a column-set blob, read or skipped), an iteration whose
\* callback always returns true returns a non-nil error.
C13_TruncatedIsError ==
    (damaged = "truncated" /\ it.pc = "returned" /\ it.stopAt = 0) =>
        it.result # "nil"

\* C14: when the tail of the file is an unfinished batch, no callback is
\* invoked for it: every invocation is for one of the whole batches before.
C14_NoCallbackForPartial ==
    (damaged = "truncated") =>
        \A i \in DOMAIN calls : calls[i].idx < Len(appended)

\* A decode closure whose f.decode failed goes past its test of err in this
\* step.
DecodeFailurePassesTest(d) ==
    /\ dec[d].pc = "test"
    /\ dec[d].err # "nil"
    /\ dec'[d].pc = "idle"

\* C15: when a stage of an iteration fails (a read of the framer, a decode of
\* a decoder goroutine), the error is latched, no callback is invoked once an
\* error is latched, and the iteration function returns the latched error.
C15_StopAtFirstError ==
    [][ /\ \A d \in Decoders : DecodeFailurePassesTest(d) => line'.Err # "nil"
        /\ (line.Err # "nil") => calls' = calls
        /\ (it.pc = "run" /\ it'.pc = "returned" /\ line.Err # "nil") =>
              it'.result = line.Err ]_vars

\* C16: once the pipeline of an iteration is closed (the callback returned
\* false, or an error was latched), its framer goroutine and every decoder
\* goroutine eventually return, also when the framer is in line.Wait().
C16_StagesExit ==
    line.closed ~> (fr.pc = "exit" /\ \A d \in Decoders : dec[d].pc = "exit")

\* C17: an Append whose meta or column-set encoding fails returns the error
\* at once, having written nothing: the file is as it was before the call.
C17_EncodeFailureWritesNothing ==
    [][ \A w \in Writers, input \in {"bad meta", "bad column"} :
            AppendCallWith(w, input) =>
                /\ wr'[w].pc = "idle"
                /\ wr'[w].res \in {"encode meta", "encode column set"}
                /\ disk' = disk ]_vars

\* An Append has returned the error of a column-set encoding, with an earlier
\* batch in the file.
C17_Witness ==
    /\ disk # <<>>
    /\ disk = FramesOf(appended)
    /\ \E w \in Writers : wr[w].pc = "idle" /\ wr[w].res = "encode column set"

\* C18: an Append of one or more rows whose type lacks a declared column
\* returns a Schema error, does not crash, and writes nothing.
C18_MissingFieldIsError ==
    [][ \A w \in Writers :
            (AppendCallWith(w, "no field") /\ Len(RowsOf(nAppends + 1)) > 0) =>
                /\ wr'[w].pc = "idle"
                /\ wr'[w].res \notin {"nil", "panic"}
                /\ disk' = disk ]_vars

\* Two different structs of the factory have a field of the same name.
Collides(fac) ==
    \E n, k \in DOMAIN fac : n # k /\ Range(fac[n]) \cap Range(fac[k]) # {}

\* C19: New with a factory in which one column name appears in two column
\* sets fails with a Schema error and returns no File.
C19_CollisionIsError ==
    (newRet # NoFile /\ Collides(factory)) =>
        newRet.err # "nil" /\ newRet.colSets = <<>>

\* C20: Iter(cols, fn) passes the arrays in the order of cols: argument j of
\* every invocation is the array of column cols[j].
C20_ArgumentOrder ==
    (it.mode = "Iter") =>
        \A i \in DOMAIN calls :
            /\ Len(calls[i].cols) = Len(it.cols)
            /\ \A j \in DOMAIN it.cols :
                  /\ calls[i].cols[j].name = it.cols[j]
                  /\ calls[i].cols[j].arr = AttrOf(appended[calls[i].idx], it.cols[j])

\* The blobs (batch b, blob s; 0 is the meta blob, n is column set n - 1) in
\* which the file differs from the one the Appends wrote.
DamagedBlobs ==
    LET whole == FramesOf(appended)
        diff  == {i \in DOMAIN disk : disk[i] # whole[i]}
    IN  IF diff = {} THEN {}
        ELSE {p \in (DOMAIN appended) \X (0..Len(colSets)) :
                 BlobStart(appended, p[1], p[2]) + 1 \in diff}

\* Blob s is one the mode reads: the meta for IterMetas and IterAll, the sets
\* with a wanted column for Iter and IterAll.
Selected(mode, cols, s) ==
    IF s = 0 THEN mode \in {"IterMetas", "IterAll"}
    ELSE mode \in {"Iter", "IterAll"} /\ Range(colSets[s]) \cap Range(cols) # {}

\* The file differs from the written one in blobs the iteration skips only.
OnlySkippedDiffer ==
    /\ damaged = "corrupt"
    /\ it.pc # "idle"
    /\ Len(disk) = Len(FramesOf(appended))
    /\ \A p \in DamagedBlobs : ~Selected(it.mode, it.cols, p[2])

\* C21: blobs the mode skips do not influence the iteration. On a file that
\* differs from the written one only inside skipped blobs, every read of the
\* framer gives what it gives on the written file (so the work items, and
\* all that follows from them, are the same), no decode error is latched
\* though the changed bytes do not decode, and every invocation delivers the
\* values of the written batch.
C21_SkippedBlobsIgnored ==
    OnlySkippedDiffer =>
        /\ fr.pc = "read" =>
              ReadFull(disk, roff, 1) = ReadFull(FramesOf(appended), roff, 1)
        /\ (fr.pc = "test" /\ err = "nil") =>
              ReadBatch(it.mode, it.cols, disk, roff, fr.numSets)
                = ReadBatch(it.mode, it.cols, FramesOf(appended), roff, fr.numSets)
        /\ line.Err # "decode"
        /\ \A d \in Decoders : dec[d].err # "decode"
        /\ \A i \in DOMAIN calls : WholeBatch(calls[i])

\* Iter(["Foo"]) has returned nil after an invocation for every batch of a
\* file in which the blob of column set 1 of some batch does not decode.
C21_Witness ==
    /\ OnlySkippedDiffer
    /\ it.mode = "Iter"
    /\ it.cols = <<"Foo">>
    /\ \E p \in DamagedBlobs : p[2] = 2 /\ DecodeSet(1, SubSeq(disk, BlobStart(appended, p[1], 2) + 1, BlobStart(appended, p[1], 2) + Len(EncodeBins(RowsOf(appended[p[1]]))[2]))).err # "nil"
    /\ it.pc = "returned"
    /\ it.result = "nil"
    /\ Len(calls) = Len(appended)

\* Every projection a caller can ask for: one to three different columns, in
\* any order.
AllProjections ==
    {<<c>> : c \in ColNames}
        \cup {p \in {<<c, e>> : c \in ColNames, e \in ColNames} : p[1] # p[2]}
        \cup {p \in {<<c, e, g>> : c \in ColNames, e \in ColNames, g \in ColNames} :
                  Cardinality(Range(p)) = 3}

\* What Iter(cols, fn) hands to fn for batch b of the file: the framer's
\* reads of the batch and the decode closure applied to them.
IterDelivers(cols, b) ==
    LET at  == BatchStart(appended, b)
        raw == ReadBatch("Iter", cols, disk, at + 1, disk[at + 1])
    IN  DecodeItem("Iter", cols, [idx |-> b, meta |-> raw.meta, bss |-> raw.bss]).cols

\* The arrays among those delivered that were collected from column c.
ArraysFor(delivered, c) ==
    {delivered[j].arr : j \in {i \in DOMAIN delivered : delivered[i].name = c}}

\* C22: projection independence. For every batch of the file and every
\* column c, Iter delivers one array for c under every projection that
\* contains c, and it is the same array whatever other columns, of the same
\* set or of other sets, are asked for with c (compared, for every file the
\* caller has written, when the iteration is about to be called); the
\* invocations of a running Iter deliver exactly these arrays.
C22_ProjectionIndependence ==
    (disk = FramesOf(appended)) =>
        /\ (it.pc = "idle") =>
              \A b \in DOMAIN appended, c \in ColNames :
                  LET got == {ArraysFor(IterDelivers(P, b), c) :
                                 P \in {X \in AllProjections : c \in Range(X)}}
                  IN  /\ Cardinality(got) = 1
                      /\ \A arrs \in got : Cardinality(arrs) = 1
        /\ (it.mode = "Iter") =>
              \A i \in DOMAIN calls : calls[i].cols = IterDelivers(it.cols, calls[i].idx)

\* Iter(["Foo", "Baz"]) has delivered a batch of two rows, for which
\* Iter(["Baz"]) and Iter(["Bar", "Baz"]) deliver the same Baz array.
C22_Witness ==
    /\ disk = FramesOf(appended)
    /\ it.mode = "Iter"
    /\ it.cols = <<"Foo", "Baz">>
    /\ \E i \in DOMAIN calls :
          /\ Len(calls[i].cols) = 2
          /\ Len(calls[i].cols[2].arr) = 2
          /\ ArraysFor(IterDelivers(<<"Baz">>, calls[i].idx), "Baz") = {calls[i].cols[2].arr}
          /\ ArraysFor(IterDelivers(<<"Bar", "Baz">>, calls[i].idx), "Baz") = {calls[i].cols[2].arr}

\* The batches of the file that were appended with no rows.
ZeroRowBatches == {b \in DOMAIN appended : NumRows(appended[b]) = 0}

\* C23: an Append of zero rows succeeds and writes a whole batch; an
\* iteration invokes the callback once for it, with its meta and with an
\* empty array for every requested column, and the batch keeps its position
\* in the sequence of invocations.
C23_ZeroRowBatch ==
    /\ \A b \in ZeroRowBatches :
          appended[b] \in returned =>
              /\ \A w \in Writers : wr[w].res = "nil"
              /\ SubSeq(disk, BatchStart(appended, b) + 1, BatchStart(appended, b + 1))
                    = Frame(<<>>, appended[b])
    /\ \A i \in DOMAIN calls :
          calls[i].idx \in ZeroRowBatches =>
              /\ WholeBatch(calls[i])
              /\ \A j \in DOMAIN calls[i].cols : calls[i].cols[j].arr = <<>>
              /\ calls[i].idx = i
    /\ (it.pc = "returned" /\ it.stopAt = 0) =>
          \A b \in ZeroRowBatches :
              appended[b] \in atCall =>
                  Cardinality({i \in DOMAIN calls : calls[i].idx = b}) = 1

\* The batches before the one the file was cut in: the well-formed ones.
WholeBefore == SubSeq(preOpen, 1, Len(preOpen) - 1)

\* The batches appended through the File that was opened on the cut file.
AppendedSince == SubSeq(appended, Len(preOpen) + 1, Len(appended))

\* The file was cut after the header of its last batch: the header is whole
\* and the blobs it declares reach past the end of the file.
TrailerCut ==
    /\ damaged = "truncated"
    /\ reopened
    /\ cutAt >= BatchStart(preOpen, Len(preOpen)) + 1 + 4 + 4 * Len(colSets)

\* C24: on a file that ends with a damaged trailer, validate leaves the
\* offset of f.file at the end of the last well-formed batch: the first
\* Append through that File starts there, and the file is then made of the
\* well-formed batches and the new ones.
C24_AppendAtLastBoundary ==
    (TrailerCut /\ validated /\ \A w \in Writers : wr[w].pc # "write") =>
        /\ woff = Len(FramesOf(WholeBefore \o AppendedSince))
        /\ AppendedSince # <<>> =>
              SubSeq(disk, 1, woff) = FramesOf(WholeBefore \o AppendedSince)

\* The file was cut inside the header of its last batch: after the K byte, or
\* inside a length field.
HeaderCut ==
    /\ damaged = "truncated"
    /\ reopened
    /\ cutAt < BatchStart(preOpen, Len(preOpen)) + 1 + 4 + 4 * Len(colSets)

\* C25: when the scan of validate meets a header that is cut short, the
\* first Append returns the error of the scan, and no byte is written to the
\* file.
C25_ScanErrorStopsAppend ==
    [][ /\ \A w \in Writers :
              (HeaderCut /\ ~validated /\ AppendCallWith(w, "ok")) =>
                  /\ wr'[w].pc = "idle"
                  /\ wr'[w].res # "nil"
                  /\ disk' = disk
        /\ (HeaderCut /\ validated /\ scans = 1 /\ nAppends = Len(preOpen) + 1) =>
              disk' = disk ]_vars

\* C26: the scan of validate runs exactly once per File, in its first
\* Append: every Append call, sequential or concurrent, leaves the count of
\* runs at one; the count changes in an Append call only (and starts again
\* at zero for the File a reopening creates), so there is no run without an
\* Append; and no Append writes a byte before the run is over.
C26_ValidateOnce ==
    [][ /\ (\E w \in Writers, input \in AppendInputs : AppendCallWith(w, input)) =>
              scans' = 1
        /\ scans' # scans =>
              \/ reopened' # reopened /\ scans' = 0
              \/ \E w \in Writers, input \in AppendInputs : AppendCallWith(w, input)
        /\ (\E w \in Writers : AppendLock(w) \/ AppendWrite(w)) =>
              scans = 1 /\ validated ]_vars

\* Two Appends were called on one File: one is part-way through its batch,
\* the other waits for the mutex, and the scan has run once.
C26_Witness ==
    /\ scans = 1
    /\ \E w, v \in Writers :
          /\ w # v
          /\ wr[w].pc = "write"
          /\ wr[w].writes # <<>>
          /\ wr[v].pc = "lock"

\* The bytes from offset off of d are one batch of the layout, for the rows
\* and the meta of one Append: the K byte with the number of column sets of
\* the factory, Lm, the K lengths, the meta blob of Lm bytes and the K set
\* blobs in factory order, each of its declared length.
LayoutAt(d, off, rows, meta) ==
    LET K     == Len(factory)
        mb    == EncodeMeta(meta)
        bins  == [n \in 1..K |-> EncodeSet(n - 1, SetFields(n - 1, Pivot(rows)))]
        hdr   == 1 + 4 + 4 * K
        at(n) == off + hdr + Len(mb) + Len(Flatten(SubSeq(bins, 1, n - 1)))
    IN  /\ Len(d) >= off + hdr
        /\ d[off + 1] = K
        /\ GetU32(SubSeq(d, off + 2, off + 5)) = Len(mb)
        /\ \A n \in 1..K :
              GetU32(SubSeq(d, off + 2 + 4 * n, off + 5 + 4 * n)) = Len(bins[n])
        /\ Len(d) >= at(K + 1)
        /\ SubSeq(d, off + hdr + 1, off + hdr + Len(mb)) = mb
        /\ \A n \in 1..K : SubSeq(d, at(n) + 1, at(n + 1)) = bins[n]

\* The size the layout gives a batch: 1 + 4 + 4K + Lm + the sum of the Li,
\* with Lm and the Li read from the header at offset off.
DeclaredSize(d, off) ==
    LET K == d[off + 1]
    IN  1 + 4 + 4 * K + GetU32(SubSeq(d, off + 2, off + 5))
          + SumU32(0, [n \in 1..K |-> GetU32(SubSeq(d, off + 2 + 4 * n, off + 5 + 4 * n))])

\* From offset off on, d is the batches with the metas ms, each of the
\* layout, each as long as its header declares, with nothing after them.
RECURSIVE LayoutFrom(_, _, _)
LayoutFrom(d, off, ms) ==
    IF ms = <<>> THEN Len(d) = off
    ELSE /\ LayoutAt(d, off, RowsOf(Head(ms)), Head(ms))
         /\ LayoutFrom(d, off + DeclaredSize(d, off), Tail(ms))

C28_SyncExcludesWrite ==
    [][ /\ \A w \in Writers : wr[w].pc = "write" => mu = w
        /\ (it.pc = "idle" /\ it'.pc = "run") =>
              /\ mu = 0
              /\ \A w \in Writers : wr[w].pc # "write" ]_vars

\* An Append is part-way through its batch and the iteration call cannot go
\* on: it waits in Sync.
C28_Witness ==
    /\ it.pc = "idle"
    /\ \E w \in Writers :
          /\ wr[w].pc = "write"
          /\ wr[w].writes # <<>>
          /\ Len(wr[w].writes) < Len(FrameWrites(RowsOf(wr[w].meta), wr[w].meta))
    /\ ~ENABLED IterCall

\* C29: an iteration leaves the file and the offset of f.file as they are:
\* no step other than those of Append and of a reopening changes either, so
\* an Append made after or during an iteration writes where it would have
\* written without it, and the file is then the batches appended, one after
\* the other.
C29_IterationReadOnly ==
    [][ /\ (wr' = wr /\ reopened' = reopened) => (disk' = disk /\ woff' = woff)
        /\ \A w \in Writers :
              (AppendLock(w) /\ it.pc # "idle") => woff = Len(FramesOf(appended))
        /\ \A w \in Writers :
              (AppendReturn(w) /\ it.pc # "idle") => disk = FramesOf(appended) ]_vars

\* An iteration has run over the first batch and returned, and a second
\* batch was appended after it.
C29_Witness ==
    /\ it.pc = "returned"
    /\ atCall = {1}
    /\ Len(calls) = 1
    /\ returned = {1, 2}
    /\ disk = FramesOf(<<1, 2>>)

\* The sum of lengths without any wrap, as three 16-bit limbs.
RECURSIVE ExactSum(_, _)
ExactSum(sum, lens) ==
    IF lens = <<>> THEN sum
    ELSE LET l  == Head(lens)
             lo == sum[3] + l[2]
             hi == sum[2] + l[1] + (lo \div 65536)
         IN  ExactSum(<< sum[1] + (hi \div 65536), hi % 65536, lo % 65536 >>,
                      Tail(lens))

\* C30: for a header of K sets with any 32-bit lengths, validate moves its
\* handle from the end of the header by exactly Lm + sum(Li) bytes, and
\* IterMetas moves its handle from the end of the meta blob by exactly
\* sum(Li) bytes, also when the sum is 2^32 or more.
C30_AdvanceIsExact ==
    /\ hdrScan.by = "validate" => hdrScan.adv = ExactSum(<<0, 0, 0>>, hdrScan.lens)
    /\ hdrScan.by = "IterMetas" =>
          hdrScan.adv = ExactSum(<<0, 0, 0>>, Tail(hdrScan.lens))

\* The batches whose Append returned nil, in the order they were written.
Succeeded == SelectSeq(appended, LAMBDA m : m \in returned)

\* The invocation c carries the values of the batch appended with meta m.
DeliversBatch(c, m) ==
    /\ it.mode \in {"IterMetas", "IterAll"} => c.meta = m
    /\ {c.cols[j].name : j \in DOMAIN c.cols} = Range(it.cols)
    /\ \A j \in DOMAIN c.cols : c.cols[j].arr = AttrOf(m, c.cols[j].name)

\* An Append failed part-way, and the Append of batch k, made after it, had
\* returned nil when the iteration was called.
AfterFailure(k) ==
    /\ k \in DOMAIN appended
    /\ appended[k] \in atCall
    /\ \E i \in 1..(k - 1) : appended[i] \notin returned

\* C31: after an Append has failed with an I/O error part-way through its
\* batch, the batches appended later through the same File are framed
\* rightly: no invocation of an iteration carries anything but the values of
\* a batch appended with success, and an iteration whose callback always
\* returns true delivers every batch appended with success after the
\* failure.
C31_FramedAfterFailure ==
    (it.pc # "idle" /\ \E k \in DOMAIN appended : AfterFailure(k)) =>
        /\ \A i \in DOMAIN calls : \E m \in atCall : DeliversBatch(calls[i], m)
        /\ (it.pc = "returned" /\ it.stopAt = 0) =>
              \A k \in DOMAIN appended :
                  AfterFailure(k) =>
                      \E i \in DOMAIN calls : DeliversBatch(calls[i], appended[k])

\* C32: Iter with a name in cols that no column set declares is rejected:
\* it returns a Schema error and never invokes the callback, so never with
\* fewer arrays than names.
C32_UnknownColumnRejected ==
    (it.mode = "Iter" /\ \E j \in DOMAIN it.cols : it.cols[j] \notin ColNames) =>
        /\ calls = <<>>
        /\ it.pc = "returned" => it.result # "nil"

(***************************************************************************)
(* Termination of an iteration call whose queues fill up.                  *)
(***************************************************************************)
\* The capacity of p1 and of p2 in a pipeline whose queues are smaller than
\* the files: line.NewPipe(SmallCap) in place of 30000, 100000 and 2048.
SmallCap == 1

\* p1.Do of the framer would not block: the framer is at its test of err and
\* leaves the loop, or the pipeline is closed, or p1 has room.
FramerReady(cap) ==
    /\ fr.pc = "test"
    /\ \/ err # "nil"
       \/ ReadBatch(it.mode, it.cols, disk, roff, fr.numSets).err # "nil"
       \/ line.closed
       \/ Len(p1) < cap

\* The framer has read a batch and is blocked in p1.Do on the full queue.
FramerBlocked(cap) == fr.pc = "test" /\ ~FramerReady(cap)

\* One caller who appends and iterates, over the file as written or after
\* it was damaged, with queues of SmallCap closures.
NextQueues ==
    \/ \E w \in Writers : damaged = "no" /\ CallerFree /\ AppendCall(w)
    \/ \E w \in Writers : AppendLock(w)
    \/ \E w \in Writers : AppendWrite(w)
    \/ \E w \in Writers : AppendReturn(w)
    \/ Damage
    \/ CallerFree /\ IterCall
    \/ FramerRead
    \/ FramerBatchWith(SmallCap)
    \/ FramerWait
    \/ \E d \in Decoders : DecTake(d)
    \/ \E d \in Decoders : DecDecodeWith(d, SmallCap)
    \/ \E d \in Decoders : DecTestWith(d, SmallCap)
    \/ \E c \in CbWorkers : CbTake(c)
    \/ \E c \in CbWorkers : CbCall(c)
    \/ \E c \in CbWorkers : CbReturn(c)
    \/ IterReturn

\* A step of a goroutine of the iteration other than the framer's reads of a
\* batch, or the return of the call, with queues of SmallCap closures.
GoroutineStepQueues ==
    \/ FramerRead
    \/ FramerWait
    \/ \E d \in Decoders :
          DecTake(d) \/ DecDecodeWith(d, SmallCap) \/ DecTestWith(d, SmallCap)
    \/ \E c \in CbWorkers : CbTake(c) \/ CbCall(c) \/ CbReturn(c)
    \/ IterReturn

\* The Go scheduler runs the goroutines that can take a step, and the
\* callback returns. FramerReady(SmallCap) is the enabling condition of
\* FramerBatchWith(SmallCap), and that step leaves the test of err or makes
\* the queue longer only while there is room, so "again and again not ready"
\* is the weak fairness of the step: a framer blocked on a full queue is not
\* assumed to go on.
FairnessQueues ==
    /\ WF_vars(GoroutineStepQueues)
    /\ []<>(~FramerReady(SmallCap))

SpecQueues == Init /\ [][NextQueues]_vars /\ FairnessQueues

\* C33: every iteration call returns: over a file as written or a damaged
\* one, whatever the callback returns, with NumCPU decoder goroutines and
\* with queues that fill up, a call that has started its goroutines
\* eventually returns when the goroutines are scheduled fairly.
C33_IterTerminates == (it.pc = "run") ~> (it.pc = "returned")

\* The framer is blocked on the full queue p1 while the call is running.
C33_Witness == it.pc = "run" /\ FramerBlocked(SmallCap)

====
